---- MODULE Spec2Model ----
(***************************************************************************)
(* project_collector.py: a linear pipeline that loads config.ini and       *)
(* files.txt from a project directory, classifies each listed file's       *)
(* language by extension, optionally strips comment lines, and writes one  *)
(* Markdown section per file into a timestamped output file.               *)
(*                                                                         *)
(* Text (file names, extensions, file contents, lines of files.txt) is a   *)
(* sequence of one-character strings, so that suffix, substring, strip and *)
(* split are computed as the code computes them.  A path is the sequence   *)
(* of its components below the filesystem root.                            *)
(***************************************************************************)
EXTENDS Integers, Sequences, FiniteSets, TLC

VARIABLES
    pc,                 \* position in main() / in the function harnesses
    env,                \* what the checks of main find on the filesystem
    project_dir,        \* args.project_dir, resolved (main, line 326)
    arg_language,       \* args.language (-l), None when absent
    clock,              \* what datetime.now() formats to during this run
    run,                \* 1 for the first invocation, 2 for a second one
    default_language,   \* main's local default_language
    language_mappings,  \* main's local language_mappings (ordered dict)
    filtering_config,   \* main's local filtering_config
    project_root,       \* main's local project_root
    files_txt,          \* the lines of files.txt
    files_and_dirs,     \* main's local files_and_dirs
    idx,                \* position of the for loop of line 408
    pending,            \* files the rglob generator of line 305 still yields
    markdown,           \* the writes made to markdown_file, in order
    origin,             \* for each write: the loop position and file it came from
    disk,               \* the output files in project_dir: what is on disk
    buffering,          \* whether a write overflows the stream's buffer
    log,                \* what was printed to standard output
    exit_code,          \* the process's exit status, None while running
    orders,             \* for each entry processed: the order rglob gave
    first_sections,     \* the sections the first run wrote
    first_orders,       \* the orders rglob gave in the first run
    probe_in,           \* harness: the arguments of the function under test
    probe_out           \* harness: what the function returned

mainVars == << env, project_dir, arg_language, clock, run, default_language,
               language_mappings, filtering_config, project_root,
               files_txt, files_and_dirs, idx, pending, markdown, origin, disk, buffering,
               log, exit_code, orders, first_sections, first_orders >>
probeVars == << probe_in, probe_out >>
vars == << pc, mainVars, probeVars >>

None == "None"

(***************************************************************************)
(* str methods                                                             *)
(***************************************************************************)
UpperToLower ==
    [c \in {"A", "B", "C", "D", "E", "F", "G", "H", "I", "J", "K", "L", "M",
            "N", "O", "P", "Q", "R", "S", "T", "U", "V", "W", "X", "Y", "Z"} |->
        CASE c = "A" -> "a" [] c = "B" -> "b" [] c = "C" -> "c" [] c = "D" -> "d"
          [] c = "E" -> "e" [] c = "F" -> "f" [] c = "G" -> "g" [] c = "H" -> "h"
          [] c = "I" -> "i" [] c = "J" -> "j" [] c = "K" -> "k" [] c = "L" -> "l"
          [] c = "M" -> "m" [] c = "N" -> "n" [] c = "O" -> "o" [] c = "P" -> "p"
          [] c = "Q" -> "q" [] c = "R" -> "r" [] c = "S" -> "s" [] c = "T" -> "t"
          [] c = "U" -> "u" [] c = "V" -> "v" [] c = "W" -> "w" [] c = "X" -> "x"
          [] c = "Y" -> "y" [] c = "Z" -> "z"]

\* str.lower()
lower(s) ==
    [i \in 1..Len(s) |-> IF s[i] \in DOMAIN UpperToLower THEN UpperToLower[s[i]] ELSE s[i]]

\* str.endswith(suffix)
endswith(s, suffix) ==
    /\ Len(suffix) <= Len(s)
    /\ SubSeq(s, Len(s) - Len(suffix) + 1, Len(s)) = suffix

\* str.startswith(prefix)
startswith(s, prefix) ==
    /\ Len(prefix) <= Len(s)
    /\ SubSeq(s, 1, Len(prefix)) = prefix

\* the `in` operator on two strings
contains(s, sub) ==
    \E i \in 0..(Len(s) - Len(sub)) : SubSeq(s, i + 1, i + Len(sub)) = sub

Whitespace == {" ", "\n", "\t", "\r"}

\* str.strip(): the first and the last character that is not whitespace
RECURSIVE FirstInk(_, _)
FirstInk(s, i) ==
    IF i > Len(s) \/ s[i] \notin Whitespace THEN i ELSE FirstInk(s, i + 1)

RECURSIVE LastInk(_, _)
LastInk(s, i) ==
    IF i < 1 \/ s[i] \notin Whitespace THEN i ELSE LastInk(s, i - 1)

strip(s) == SubSeq(s, FirstInk(s, 1), LastInk(s, Len(s)))

\* str.find(c, i) for a one-character c, 1-based; 0 when there is none
RECURSIVE find(_, _, _)
find(s, c, i) ==
    IF i > Len(s) THEN 0 ELSE IF s[i] = c THEN i ELSE find(s, c, i + 1)

\* str.split(sep) for a one-character sep: the pieces between separators, the
\* empty ones included
RECURSIVE split(_, _)
split(s, sep) ==
    LET i == find(s, sep, 1)
    IN  IF i = 0 THEN << s >>
        ELSE << SubSeq(s, 1, i - 1) >> \o split(SubSeq(s, i + 1, Len(s)), sep)

\* sep.join(pieces)
RECURSIVE join(_, _)
join(pieces, sep) ==
    IF pieces = << >> THEN << >>
    ELSE IF Len(pieces) = 1 THEN pieces[1]
    ELSE pieces[1] \o << sep >> \o join(Tail(pieces), sep)

(***************************************************************************)
(* pathlib                                                                 *)
(***************************************************************************)
\* PurePath.name: the final component
name(path) == IF path = << >> THEN << >> ELSE path[Len(path)]

\* PurePath.suffix of a file name: from the last dot, unless that dot is the
\* first or the last character
suffix(filename) ==
    LET dots == {i \in 1..Len(filename) : filename[i] = "."}
    IN  IF dots = {} THEN << >>
        ELSE LET i == CHOOSE k \in dots : \A j \in dots : j <= k
             IN  IF 1 < i /\ i < Len(filename)
                 THEN SubSeq(filename, i, Len(filename))
                 ELSE << >>

(***************************************************************************)
(* Language mapping table.  A dict keeps insertion order, and line 199     *)
(* iterates in that order, so the table is a sequence of entries.          *)
(***************************************************************************)
get_default_language_mappings ==
    << [ext |-> <<".", "p", "y">>, lang |-> "python"],
       [ext |-> <<".", "p", "y", "w">>, lang |-> "python"],
       [ext |-> <<".", "p", "y", "x">>, lang |-> "python"],
       [ext |-> <<".", "r", "b">>, lang |-> "ruby"],
       [ext |-> <<".", "r", "b", "w">>, lang |-> "ruby"],
       [ext |-> <<".", "e", "r", "b">>, lang |-> "erb"],
       [ext |-> <<".", "h", "t", "m", "l", ".", "e", "r", "b">>, lang |-> "erb"],
       [ext |-> <<".", "j", "s", ".", "e", "r", "b">>, lang |-> "erb"],
       [ext |-> <<".", "c", "s", "s", ".", "e", "r", "b">>, lang |-> "erb"],
       [ext |-> <<".", "h", "t", "m", "l">>, lang |-> "html"],
       [ext |-> <<".", "h", "t", "m">>, lang |-> "html"],
       [ext |-> <<".", "j", "i", "n", "j", "a">>, lang |-> "html"],
       [ext |-> <<".", "j", "i", "n", "j", "a", "2">>, lang |-> "html"],
       [ext |-> <<".", "j", "2">>, lang |-> "html"],
       [ext |-> <<".", "d", "j", "a", "n", "g", "o">>, lang |-> "html"],
       [ext |-> <<".", "j", "s">>, lang |-> "javascript"],
       [ext |-> <<".", "j", "s", "x">>, lang |-> "jsx"],
       [ext |-> <<".", "t", "s">>, lang |-> "typescript"],
       [ext |-> <<".", "t", "s", "x">>, lang |-> "tsx"],
       [ext |-> <<".", "v", "u", "e">>, lang |-> "vue"],
       [ext |-> <<".", "c", "s", "s">>, lang |-> "css"],
       [ext |-> <<".", "s", "c", "s", "s">>, lang |-> "scss"],
       [ext |-> <<".", "s", "a", "s", "s">>, lang |-> "sass"],
       [ext |-> <<".", "l", "e", "s", "s">>, lang |-> "less"],
       [ext |-> <<".", "j", "s", "o", "n">>, lang |-> "json"],
       [ext |-> <<".", "y", "a", "m", "l">>, lang |-> "yaml"],
       [ext |-> <<".", "y", "m", "l">>, lang |-> "yaml"],
       [ext |-> <<".", "t", "o", "m", "l">>, lang |-> "toml"],
       [ext |-> <<".", "i", "n", "i">>, lang |-> "ini"],
       [ext |-> <<".", "c", "f", "g">>, lang |-> "ini"],
       [ext |-> <<".", "c", "o", "n", "f">>, lang |-> "bash"],
       [ext |-> <<".", "s", "h">>, lang |-> "bash"],
       [ext |-> <<".", "b", "a", "s", "h">>, lang |-> "bash"],
       [ext |-> <<".", "z", "s", "h">>, lang |-> "zsh"],
       [ext |-> <<".", "f", "i", "s", "h">>, lang |-> "fish"],
       [ext |-> <<".", "s", "q", "l">>, lang |-> "sql"],
       [ext |-> <<".", "m", "d">>, lang |-> "markdown"],
       [ext |-> <<".", "t", "x", "t">>, lang |-> "text"],
       [ext |-> <<".", "r", "s", "t">>, lang |-> "rst"],
       [ext |-> <<"d", "o", "c", "k", "e", "r", "f", "i", "l", "e">>, lang |-> "dockerfile"],
       [ext |-> <<".", "d", "o", "c", "k", "e", "r", "f", "i", "l", "e">>, lang |-> "dockerfile"],
       [ext |-> <<".", "x", "m", "l">>, lang |-> "xml"],
       [ext |-> <<".", "c", "s", "v">>, lang |-> "csv"],
       [ext |-> <<".", "l", "o", "g">>, lang |-> "text"] >>

\* the keys of a table
Keys(mappings) == {mappings[i].ext : i \in 1..Len(mappings)}

\* mappings[key], for a key of the table
Lookup(mappings, key) ==
    mappings[CHOOSE i \in 1..Len(mappings) : mappings[i].ext = key].lang

\* mappings[key] = language: an existing key keeps its place, a new one is
\* appended
DictSet(mappings, key, language) ==
    IF key \in Keys(mappings)
    THEN [i \in 1..Len(mappings) |->
             IF mappings[i].ext = key
             THEN [ext |-> key, lang |-> language]
             ELSE mappings[i]]
    ELSE Append(mappings, [ext |-> key, lang |-> language])

\* read_language_mappings: the defaults, then every item of the
\* [LanguageMappings] section in file order.  configparser hands out option
\* names lower-cased.
RECURSIVE read_language_mappings_from(_, _)
read_language_mappings_from(mappings, items) ==
    IF items = << >> THEN mappings
    ELSE read_language_mappings_from(
             DictSet(mappings, lower(items[1].ext), items[1].lang), Tail(items))

read_language_mappings(items) ==
    read_language_mappings_from(get_default_language_mappings, items)

\* get_language_for_file with one difference: the first pass is left out and
\* classification starts at the plain suffix
get_language_for_file_no_first_pass(filepath, default, mappings) ==
    LET extension == lower(suffix(name(filepath)))
        filename  == lower(name(filepath))
    IN  IF extension \in Keys(mappings) THEN Lookup(mappings, extension)
        ELSE IF filename \in Keys(mappings) THEN Lookup(mappings, filename)
        ELSE default

\* get_language_for_file (lines 192-214)
get_language_for_file(filepath, default, mappings) ==
    LET full_name == lower(name(filepath))
        hits      == {i \in 1..Len(mappings) :
                         /\ endswith(full_name, lower(mappings[i].ext))
                         /\ Len(mappings[i].ext) > 1}
        extension == lower(suffix(name(filepath)))
        filename  == lower(name(filepath))
    IN  IF hits # {}
        THEN mappings[CHOOSE i \in hits : \A j \in hits : i <= j].lang
        ELSE IF extension \in Keys(mappings) THEN Lookup(mappings, extension)
        ELSE IF filename \in Keys(mappings) THEN Lookup(mappings, filename)
        ELSE default

(***************************************************************************)
(* Exclusion and comment stripping                                         *)
(***************************************************************************)
get_default_exclude_patterns ==
    << <<".", "k", "e", "e", "p">>, <<".", "g", "i", "t", "k", "e", "e", "p">>, <<".", "D", "S", "_", "S", "t", "o", "r", "e">>, <<"T", "h", "u", "m", "b", "s", ".", "d", "b">>, <<".", "t", "m", "p">>, <<".", "t", "e", "m", "p">> >>

\* The regular expressions of the comment pattern table come in three
\* shapes; a pattern is kept as the data of its shape.
\*   LineComment(P):  ^(p1|p2|...).*$      the line starts with one of P
\*   Block(o, c):     ^\s*o.*?c\s*$        the stripped line runs from o to c
\*   AnyLine:         ^.*$                 every line
LineComment(prefixes) == [shape |-> "line", starts |-> prefixes, open |-> << >>, close |-> << >>]
Block(o, c) == [shape |-> "block", starts |-> {}, open |-> o, close |-> c]
AnyLine == [shape |-> "any", starts |-> {}, open |-> << >>, close |-> << >>]

\* re.match(pattern, line, re.MULTILINE | re.DOTALL) on a line that holds no
\* newline (it is a piece of split('\n'))
re_match(pattern, line) ==
    CASE pattern.shape = "line" ->
            \E p \in pattern.starts : startswith(line, p)
      [] pattern.shape = "block" ->
            /\ startswith(strip(line), pattern.open)
            /\ endswith(strip(line), pattern.close)
            /\ Len(strip(line)) >= Len(pattern.open) + Len(pattern.close)
      [] pattern.shape = "any" -> TRUE

get_default_comment_patterns ==
    [language \in {"python", "ruby", "javascript", "css", "html", "sql",
                   "bash", "yaml", "ini", "erb"} |->
        CASE language = "python" ->
                << LineComment({<<"#">>}), Block(<<"\"", "\"", "\"">>, <<"\"", "\"", "\"">>), Block(<<"'", "'", "'">>, <<"'", "'", "'">>) >>
          [] language = "ruby" -> << LineComment({<<"#">>}), Block(<<"=", "b", "e", "g", "i", "n">>, <<"=", "e", "n", "d">>) >>
          [] language = "javascript" -> << LineComment({<<"/", "/">>}), Block(<<"/", "*">>, <<"*", "/">>) >>
          [] language = "css" -> << Block(<<"/", "*">>, <<"*", "/">>) >>
          [] language = "html" -> << Block(<<"<", "!", "-", "-">>, <<"-", "-", ">">>) >>
          [] language = "sql" -> << LineComment({<<"-", "-">>}), Block(<<"/", "*">>, <<"*", "/">>) >>
          [] language = "bash" -> << LineComment({<<"#">>}) >>
          [] language = "yaml" -> << LineComment({<<"#">>}) >>
          [] language = "ini" -> << LineComment({<<"#">>, <<";">>}) >>
          [] language = "erb" -> << LineComment({<<"#">>}), Block(<<"<", "!", "-", "-">>, <<"-", "-", ">">>) >>]

\* comment_patterns[language] = patterns, on the table as a function
PatternsSet(table, language, patterns) ==
    [l \in DOMAIN table \cup {language} |-> IF l = language THEN patterns ELSE table[l]]

\* read_filtering_config (lines 153-189).  `filtering` is the [Filtering]
\* section as read, `custom_exclude` the values of [ExcludePatterns] and
\* `custom_comments` the parsed items of [CommentPatterns], each empty when
\* the section is absent.
RECURSIVE read_comment_patterns(_, _)
read_comment_patterns(table, items) ==
    IF items = << >> THEN table
    ELSE read_comment_patterns(
             IF items[1].patterns # << >>
             THEN PatternsSet(table, items[1].language, items[1].patterns)
             ELSE table,
             Tail(items))

read_filtering_config(filtering, custom_exclude, custom_comments) ==
    [exclude_files    |-> filtering.exclude_files,
     clean_comments   |-> filtering.clean_comments,
     exclude_patterns |-> IF custom_exclude # << >> THEN custom_exclude
                          ELSE get_default_exclude_patterns,
     comment_patterns |-> read_comment_patterns(get_default_comment_patterns,
                                                custom_comments)]

\* should_exclude_file with one difference: the file name is not lower-cased
should_exclude_file_case_sensitive(filepath, exclude_patterns) ==
    \E i \in 1..Len(exclude_patterns) :
        contains(name(filepath), lower(exclude_patterns[i]))

\* should_exclude_file (lines 217-220)
should_exclude_file(filepath, exclude_patterns) ==
    LET filename == lower(name(filepath))
    IN  \E i \in 1..Len(exclude_patterns) :
            contains(filename, lower(exclude_patterns[i]))

\* the loop body of lines 236-248: whether the line stays
KeepLine(line, patterns) ==
    LET is_comment == \E i \in 1..Len(patterns) : re_match(patterns[i], line)
    IN  \/ ~is_comment
        \/ strip(line) = << >>

\* clean_content with one difference: a comment line is kept
clean_content_keeps_comments(content, language, comment_patterns) == content

\* clean_content (lines 223-250)
clean_content(content, language, comment_patterns) ==
    IF DOMAIN comment_patterns = {} THEN content
    ELSE LET patterns == IF language \in DOMAIN comment_patterns
                         THEN comment_patterns[language] ELSE << >>
         IN  IF patterns = << >> THEN content
             ELSE join(SelectSeq(split(content, "\n"),
                                LAMBDA line : KeepLine(line, patterns)), "\n")

(***************************************************************************)
(* process_file                                                            *)
(***************************************************************************)
\* PurePath.relative_to(other): the components after `other`, or ValueError
IsRelativeTo(path, other) ==
    /\ Len(other) <= Len(path)
    /\ SubSeq(path, 1, Len(other)) = other

relative_to(path, other) == SubSeq(path, Len(other) + 1, Len(path))

Msg(kind, path) == [kind |-> kind, path |-> path]

\* what one write of line 287 puts on the stream
Section(relative_path, language, content) ==
    [kind |-> "section", path |-> relative_path, lang |-> language, content |-> content]

\* process_file with one difference: the exclusion test is not made
process_file_no_exclusion(filepath, file, root, default, mappings, filtering) ==
    IF ~file.exists
    THEN [writes |-> << >>, log |-> << Msg("File not found", filepath) >>]
    ELSE LET file_language == get_language_for_file(filepath, default, mappings)
             content == IF filtering.clean_comments
                        THEN clean_content(file.content, file_language,
                                           filtering.comment_patterns)
                        ELSE file.content
         IN  IF ~file.readable
             THEN [writes |-> << >>, log |-> << Msg("Error reading file", filepath) >>]
             ELSE IF strip(content) = << >>
             THEN [writes |-> << >>,
                   log |-> << Msg("Skipped empty file after cleaning", filepath) >>]
             ELSE IF ~IsRelativeTo(filepath, root)
             THEN [writes |-> << >>, log |-> << Msg("Error reading file", filepath) >>]
             ELSE [writes |-> << Section(relative_to(filepath, root), file_language, content) >>,
                   log |-> << >>]

\* process_file (lines 259-289): what it writes to markdown_file and what it
\* prints.  `file` is what the filesystem holds at filepath: whether it
\* exists, whether open() succeeds, and its text.
process_file(filepath, file, root, default, mappings, filtering) ==
    IF ~file.exists
    THEN [writes |-> << >>, log |-> << Msg("File not found", filepath) >>]
    ELSE IF filtering.exclude_files
            /\ should_exclude_file(filepath, filtering.exclude_patterns)
    THEN [writes |-> << >>, log |-> << Msg("Excluded file", filepath) >>]
    ELSE LET file_language == get_language_for_file(filepath, default, mappings)
             content == IF filtering.clean_comments
                        THEN clean_content(file.content, file_language,
                                           filtering.comment_patterns)
                        ELSE file.content
         IN  IF ~file.readable
             THEN [writes |-> << >>, log |-> << Msg("Error reading file", filepath) >>]
             ELSE IF strip(content) = << >>
             THEN [writes |-> << >>,
                   log |-> << Msg("Skipped empty file after cleaning", filepath) >>]
             ELSE IF ~IsRelativeTo(filepath, root)
             THEN [writes |-> << >>, log |-> << Msg("Error reading file", filepath) >>]
             ELSE [writes |-> << Section(relative_to(filepath, root), file_language, content) >>,
                   log |-> << >>]

(***************************************************************************)
(* The filesystem of a run                                                 *)
(***************************************************************************)
\* project_root of config.ini, resolved
ProjectRoot == << <<"r">> >>

\* where the project directory may lie: beside the project root, or inside
\* the project root, below a directory w that holds nothing else
ProjectDirs == { << <<"p">> >>, << <<"r">>, <<"w">>, <<"p">> >> }

\* two readings of the clock, in different minutes
Clocks == {"T1", "T2"}

\* the files below the project root r, one of them unreadable, and a
\* directory x outside it
SourceFiles ==
    (<< <<"r">>, <<"s", "r", "c">>, <<"a", ".", "p", "y">> >>              :> [readable |-> TRUE,  content |-> <<"#", "\n", "a">>]) @@
    (<< <<"r">>, <<"s", "r", "c">>, <<"s", "u", "b">>, <<".", "D", "S", "_", "S", "T", "O", "R", "E">> >> :> [readable |-> TRUE,  content |-> <<"a">>]) @@
    (<< <<"r">>, <<"c", ".", "s", "h">> >>                      :> [readable |-> TRUE,  content |-> <<"#", "\n">>]) @@
    (<< <<"r">>, <<"u", ".", "p", "y">> >>                      :> [readable |-> FALSE, content |-> <<"a">>]) @@
    (<< <<"x">>, <<"o", ".", "p", "y">> >>                      :> [readable |-> TRUE,  content |-> <<"a">>]) @@
    (<< <<"x">>, <<"n">>, <<"q", ".", "p", "y">> >>                :> [readable |-> TRUE,  content |-> <<"a">>]) @@
    (<< <<"x">>, <<"n">>, <<"s", ".", "p", "y">> >>                :> [readable |-> TRUE,  content |-> <<"a">>])

ConfigText == <<"[", "S", "e", "t", "t", "i", "n", "g", "s", "]", "\n">>

\* generate_output_filename (lines 315-319); the timestamp is one token
generate_output_filename(dir, now) == name(dir) \o << "_", now >> \o <<".", "m", "d">>

\* str(path) of a relative path
PathText(path) == join(path, "/")

\* the text of one write to markdown_file (lines 401, 402, 287); the three
\* backquotes of a code fence are the one token "<fence>", the language tag
\* and the timestamp one token each
WriteText(w) ==
    CASE w.kind = "title" -> <<"#", " ", "P", "r", "o", "j", "e", "c", "t", ":", " ">> \o w.name \o <<"\n", "\n">>
      [] w.kind = "generated" -> <<"#", " ", "G", "e", "n", "e", "r", "a", "t", "e", "d", ":", " ">> \o << w.now, "\n" >>
      [] w.kind = "section" ->
            <<"#", "#", "#", " ">> \o PathText(w.path) \o << "\n", "<fence>", w.lang, "\n" >>
                \o w.content \o << "\n", "<fence>" >> \o <<"\n", "\n", "-", "-", "-", "\n", "\n">>

RECURSIVE Text(_)
Text(writes) ==
    IF writes = << >> THEN << >> ELSE WriteText(writes[1]) \o Text(Tail(writes))

\* the text of files.txt
FileListText(lines) == IF lines = << >> THEN << >> ELSE join(lines, "\n") \o << "\n" >>

ConfigPath == Append(project_dir, <<"c", "o", "n", "f", "i", "g", ".", "i", "n", "i">>)
FileListPath == Append(project_dir, <<"f", "i", "l", "e", "s", ".", "t", "x", "t">>)
OutputPath(now) == Append(project_dir, generate_output_filename(project_dir, now))

\* the regular files there are once main's checks have passed
Files ==
    DOMAIN SourceFiles \cup {ConfigPath, FileListPath}
        \cup {OutputPath(c) : c \in {d \in Clocks : disk[d].exists}}

Dirs == UNION {{SubSeq(f, 1, k) : k \in 0..(Len(f) - 1)} : f \in Files}

is_file(path) == path \in Files
is_dir(path) == path \in Dirs

\* what open() and read() give at path
FileAt(path) ==
    IF path \in DOMAIN SourceFiles
    THEN [exists |-> TRUE, readable |-> SourceFiles[path].readable,
          content |-> SourceFiles[path].content]
    ELSE IF path = ConfigPath
    THEN [exists |-> TRUE, readable |-> TRUE, content |-> ConfigText]
    ELSE IF path = FileListPath
    THEN [exists |-> TRUE, readable |-> TRUE, content |-> FileListText(files_txt)]
    ELSE IF \E c \in Clocks : disk[c].exists /\ path = OutputPath(c)
    THEN [exists |-> TRUE, readable |-> TRUE,
          content |-> Text(disk[CHOOSE c \in Clocks : path = OutputPath(c)].data)]
    ELSE [exists |-> FALSE, readable |-> FALSE, content |-> << >>]

RECURSIVE Perms(_)
Perms(S) ==
    IF S = {} THEN {<< >>}
    ELSE UNION {{<< x >> \o p : p \in Perms(S \ {x})} : x \in S}

\* Path.rglob("*") filtered by is_file() (lines 305-306): the orders in which
\* the files below dir can come.  A directory's own entries come first, then
\* each subdirectory in turn; the order within a directory is the
\* filesystem's.
RECURSIVE rglob(_), rglob_each(_)
rglob_each(dirs) ==
    IF dirs = << >> THEN {<< >>}
    ELSE {a \o b : a \in rglob(dirs[1]), b \in rglob_each(Tail(dirs))}

rglob(dir) ==
    LET here == {f \in Files : Len(f) = Len(dir) + 1 /\ IsRelativeTo(f, dir)}
        subs == {d \in Dirs : Len(d) = Len(dir) + 1 /\ IsRelativeTo(d, dir)}
    IN  UNION {{a \o b : a \in Perms(here), b \in rglob_each(order)} : order \in Perms(subs)}

(***************************************************************************)
(* process_path                                                            *)
(***************************************************************************)
\* os.path.isabs
isabs(item) == item # << >> /\ item[1] = "/"

\* Path(text): the components, without empty ones and without "."
ParsePath(item) ==
    SelectSeq(split(item, "/"), LAMBDA c : c # << >> /\ c # <<".">>)

\* lines 295-301: the path an entry of files.txt stands for (no entry of the
\* model starts with "~", so expanduser changes nothing)
resolve(item, root) ==
    IF ~isabs(item) THEN root \o ParsePath(item) ELSE ParsePath(item)

\* read_file_list (lines 253-256), on the lines of the file
read_file_list(lines) ==
    LET stripped == [i \in 1..Len(lines) |-> strip(lines[i])]
    IN  SelectSeq(stripped, LAMBDA l : l # << >> /\ ~startswith(l, <<"#">>))

\* markdown_file.write with one difference: the text goes to the front
stream_write_front(stream, writes) == writes \o stream

\* markdown_file.write: the stream is appended to
stream_write(stream, writes) == stream \o writes

(***************************************************************************)
(* Inputs of a run                                                         *)
(***************************************************************************)
\* the most lines files.txt has
MaxLines == 2

\* the lines files.txt is made of: a directory, files by absolute and by
\* relative path, below and outside the project root, a comment and a blank
\* line.  w is there only when the project directory lies below it.
FileListLines ==
    { <<"s", "r", "c">>, <<"/", "r", "/", "c", ".", "s", "h">>, <<"/", "x", "/", "o", ".", "p", "y">>, <<"/", "x">>, <<"u", ".", "p", "y">>,
      <<" ", "s", "r", "c", "/", "s", "u", "b", "/", ".", "D", "S", "_", "S", "T", "O", "R", "E", " ">>, <<"w">>, <<"#", " ", "n", "o", "t", "e">>, <<>> }

FileLists == UNION {[1..n -> FileListLines] : n \in 0..MaxLines}

\* what main's checks can find: the project directory, config.ini and
\* files.txt in it, [Settings] and its project_root, the directory it names
Environments ==
    [project_dir_exists : BOOLEAN, config_exists : BOOLEAN, list_exists : BOOLEAN,
     has_settings : BOOLEAN, has_project_root : BOOLEAN, root_exists : BOOLEAN]

\* -l on the command line and default_language in [Settings]: neither is
\* given in a run of main (get_language_for_file is run with other default
\* languages on its own)
ArgLanguages == {None}
ConfigLanguages == {None}

\* [Filtering], with the defaults of lines 167-168 applied
FilteringChoices == [exclude_files : BOOLEAN, clean_comments : BOOLEAN]

\* the values of [ExcludePatterns], the items of [CommentPatterns] and of
\* [LanguageMappings] of a run of main: the sections are absent
ExcludeChoices == { << >> }
CommentChoices == { << >> }
LanguageItemChoices == { << >> }

\* whether one write of a section is more than the stream's buffer holds
Bufferings == {"fits", "overflows"}

\* an entry of the file list is a directory the project directory lies in:
\* the walk of it comes to the output file of the run
ReadsOwnOutput(entries, root) ==
    \E i \in 1..Len(entries) : IsRelativeTo(project_dir, resolve(entries[i], root))

NoFiltering ==
    [exclude_files |-> FALSE, clean_comments |-> FALSE,
     exclude_patterns |-> << >>, comment_patterns |-> << >>]

NoDisk == [c \in Clocks |-> [exists |-> FALSE, data |-> << >>]]

\* main's locals before they are assigned, and nothing written
Fresh ==
    /\ clock = "T1"
    /\ run = 1
    /\ default_language = None
    /\ language_mappings = << >>
    /\ filtering_config = NoFiltering
    /\ project_root = << >>
    /\ files_txt = << >>
    /\ files_and_dirs = << >>
    /\ idx = 0
    /\ pending = << >>
    /\ markdown = << >>
    /\ origin = << >>
    /\ disk = NoDisk
    /\ buffering = "fits"
    /\ log = << >>
    /\ exit_code = << >>
    /\ orders = << >>
    /\ first_sections = << >>
    /\ first_orders = << >>

Init ==
    /\ pc = "start"
    /\ env \in Environments
    /\ project_dir \in ProjectDirs
    /\ arg_language \in ArgLanguages
    /\ Fresh
    /\ probe_in = << >>
    /\ probe_out = << >>

(***************************************************************************)
(* main                                                                    *)
(***************************************************************************)
configVars == << default_language, language_mappings, filtering_config >>
inputVars == << env, project_dir, arg_language, clock, run, first_sections,
                first_orders >>
outputVars == << markdown, origin, disk, buffering >>
loopVars == << idx, pending, orders >>

\* print(...); exit(1)
Fatal(message) ==
    /\ log' = Append(log, Msg(message, << >>))
    /\ exit_code' = << 1 >>
    /\ pc' = "exit"

\* lines 326-331
CheckProjectDir ==
    /\ pc = "start"
    /\ IF env.project_dir_exists
       THEN pc' = "check_config" /\ UNCHANGED << log, exit_code >>
       ELSE Fatal("Error: Project directory not found or is not a directory.")
    /\ UNCHANGED << inputVars, configVars, project_root, files_txt, files_and_dirs,
                    loopVars, outputVars, probeVars >>

\* lines 334-341
CheckConfigFile ==
    /\ pc = "check_config"
    /\ IF env.config_exists
       THEN pc' = "check_list" /\ UNCHANGED << log, exit_code >>
       ELSE Fatal("Error: Configuration file not found.")
    /\ UNCHANGED << inputVars, configVars, project_root, files_txt, files_and_dirs,
                    loopVars, outputVars, probeVars >>

\* CheckFileList with one difference: a missing files.txt is not noticed
CheckFileList_unchecked ==
    /\ pc = "check_list"
    /\ pc' = "read_config"
    /\ UNCHANGED << log, exit_code >>
    /\ UNCHANGED << inputVars, configVars, project_root, files_txt, files_and_dirs,
                    loopVars, outputVars, probeVars >>

\* lines 343-346
CheckFileList ==
    /\ pc = "check_list"
    /\ IF env.list_exists
       THEN pc' = "read_config" /\ UNCHANGED << log, exit_code >>
       ELSE Fatal("Error: File list not found.")
    /\ UNCHANGED << inputVars, configVars, project_root, files_txt, files_and_dirs,
                    loopVars, outputVars, probeVars >>

\* lines 350-364: read_ini_config raises ValueError without [Settings], which
\* line 413 catches; then the default language, the mappings, the filtering.
\* A second run reads what the first one read.
ReadConfig ==
    /\ pc = "read_config"
    /\ IF env.has_settings
       THEN \E config_language \in ConfigLanguages, filtering \in FilteringChoices,
               custom_exclude \in ExcludeChoices, custom_comments \in CommentChoices,
               items \in LanguageItemChoices :
                /\ default_language' =
                       IF arg_language # None THEN arg_language
                       ELSE IF config_language # None THEN config_language
                       ELSE "text"
                /\ language_mappings' = read_language_mappings(items)
                /\ filtering_config' =
                       read_filtering_config(filtering, custom_exclude, custom_comments)
                /\ run = 2 => UNCHANGED configVars
                /\ pc' = "root"
                /\ UNCHANGED << log, exit_code >>
       ELSE /\ Fatal("Error: Missing 'Settings' section in config.ini file")
            /\ UNCHANGED configVars
    /\ UNCHANGED << inputVars, project_root, files_txt, files_and_dirs, loopVars,
                    outputVars, probeVars >>

\* lines 367-376
GetProjectRoot ==
    /\ pc = "root"
    /\ IF ~env.has_project_root
       THEN Fatal("Error: 'project_root' not specified in config.ini")
                /\ UNCHANGED project_root
       ELSE IF ~env.root_exists
       THEN Fatal("Error: Project root directory not found.")
                /\ project_root' = ProjectRoot
       ELSE /\ project_root' = ProjectRoot
            /\ pc' = "read_list"
            /\ UNCHANGED << log, exit_code >>
    /\ UNCHANGED << inputVars, configVars, files_txt, files_and_dirs, loopVars,
                    outputVars, probeVars >>

\* lines 379-382
ReadFileList ==
    /\ pc = "read_list"
    /\ \E lines \in FileLists :
        /\ run = 2 => lines = files_txt
        /\ files_txt' = lines
        /\ files_and_dirs' = read_file_list(lines)
        /\ log' = IF read_file_list(lines) = << >>
                  THEN Append(log, Msg("Warning: File list is empty.", << >>))
                  ELSE log
    /\ pc' = "open"
    /\ UNCHANGED << inputVars, configVars, project_root, loopVars, outputVars,
                    exit_code, probeVars >>

\* lines 385-402: the output file is created (or truncated) and the two
\* header lines are written; they stay in the stream's buffer.  What has
\* reached the disk before the file is closed shows only to a run that reads
\* its own output file, so the size of the buffer is drawn for those runs.
OpenOutput ==
    /\ pc = "open"
    /\ \E b \in Bufferings :
        /\ run = 2 => b = buffering
        /\ ~ReadsOwnOutput(files_and_dirs, project_root) => b = "fits"
        /\ buffering' = b
    /\ disk' = [disk EXCEPT ![clock] = [exists |-> TRUE, data |-> << >>]]
    /\ markdown' = stream_write(<< >>,
                       << [kind |-> "title", name |-> name(project_dir)],
                          [kind |-> "generated", now |-> clock] >>)
    /\ origin' = << [entry |-> 0, file |-> << >>], [entry |-> 0, file |-> << >>] >>
    /\ log' = Append(log, Msg("Generating project log...", OutputPath(clock)))
    /\ idx' = 1
    /\ pc' = "loop"
    /\ UNCHANGED << inputVars, configVars, project_root, files_txt, files_and_dirs,
                    pending, orders, exit_code, probeVars >>

\* one call of process_file from process_path, and its writes reaching the
\* stream: a section that overflows the buffer takes the buffered text to
\* the disk with it
CallProcessFile(filepath, before) ==
    LET done == process_file(filepath, FileAt(filepath), project_root,
                             default_language, language_mappings, filtering_config)
    IN  /\ markdown' = stream_write(markdown, done.writes)
        /\ origin' = origin \o [i \in 1..Len(done.writes) |->
                                   [entry |-> idx, file |-> filepath]]
        /\ disk' = IF done.writes # << >> /\ buffering = "overflows"
                   THEN [disk EXCEPT ![clock].data = markdown']
                   ELSE disk
        /\ log' = log \o before \o done.log

\* lines 311-312 with one difference: a path that is not there ends the run
path_not_found_fatal(full_path) ==
    /\ Fatal("Path not found")
    /\ UNCHANGED << idx, pending, orders, markdown, origin, disk >>

\* lines 311-312
path_not_found(full_path) ==
    /\ log' = Append(log, Msg("Path not found", full_path))
    /\ idx' = idx + 1
    /\ orders' = Append(orders, << >>)
    /\ UNCHANGED << pc, exit_code, pending, markdown, origin, disk >>

\* the order of a directory in a second run: the one of the first run, on
\* an unchanged tree, with this run's output file for that run's
SameOrder(order) ==
    [i \in 1..Len(order) |->
        IF order[i] = OutputPath("T1") THEN OutputPath("T2") ELSE order[i]]

\* lines 408-409 and process_path (lines 292-312) up to the first file of a
\* directory
ProcessPath ==
    /\ pc = "loop"
    /\ idx <= Len(files_and_dirs)
    /\ LET full_path == resolve(files_and_dirs[idx], project_root)
       IN  IF is_dir(full_path)
           THEN /\ \E order \in rglob(full_path) :
                    /\ run = 2 => order = SameOrder(first_orders[idx])
                    /\ pending' = order
                    /\ orders' = Append(orders, order)
                    /\ IF order = << >>
                       THEN idx' = idx + 1 /\ pc' = "loop"
                       ELSE idx' = idx /\ pc' = "walk"
                /\ log' = Append(log, Msg("Processing directory", full_path))
                /\ UNCHANGED << markdown, origin, disk, exit_code >>
           ELSE IF is_file(full_path)
           THEN /\ CallProcessFile(full_path, << Msg("Processing file", full_path) >>)
                /\ idx' = idx + 1
                /\ orders' = Append(orders, << >>)
                /\ UNCHANGED << pc, pending, exit_code >>
           ELSE path_not_found(full_path)
    /\ UNCHANGED << inputVars, configVars, project_root, files_txt, files_and_dirs,
                    buffering, probeVars >>

\* lines 305-307: the next file of the directory being walked
WalkFile ==
    /\ pc = "walk"
    /\ CallProcessFile(Head(pending), << >>)
    /\ pending' = Tail(pending)
    /\ IF Tail(pending) = << >>
       THEN idx' = idx + 1 /\ pc' = "loop"
       ELSE idx' = idx /\ pc' = "walk"
    /\ UNCHANGED << inputVars, configVars, project_root, files_txt, files_and_dirs,
                    orders, buffering, exit_code, probeVars >>

\* the end of the with block of line 399 and line 411: the file is closed,
\* what the buffer held reaches the disk, and main returns
Finish ==
    /\ pc = "loop"
    /\ idx > Len(files_and_dirs)
    /\ disk' = [disk EXCEPT ![clock].data = markdown]
    /\ log' = Append(log, Msg("Project log successfully generated", OutputPath(clock)))
    /\ exit_code' = << 0 >>
    /\ pc' = "done"
    /\ UNCHANGED << inputVars, configVars, project_root, files_txt, files_and_dirs,
                    loopVars, markdown, origin, buffering, probeVars >>

Next ==
    \/ CheckProjectDir
    \/ CheckConfigFile
    \/ CheckFileList
    \/ ReadConfig
    \/ GetProjectRoot
    \/ ReadFileList
    \/ OpenOutput
    \/ ProcessPath
    \/ WalkFile
    \/ Finish

Spec == Init /\ [][Next]_vars

\* the sections of a document: its writes without the two header lines
Sections(writes) == SelectSeq(writes, LAMBDA w : w.kind = "section")

\* The program is started a second time at another minute, with the same
\* arguments, the same config.ini and files.txt and the same tree: the first
\* run's output file has been moved away.
Rerun ==
    /\ pc = "done"
    /\ run = 1
    /\ run' = 2
    /\ clock' = "T2"
    /\ first_sections' = Sections(markdown)
    /\ first_orders' = orders
    /\ disk' = NoDisk
    /\ markdown' = << >>
    /\ origin' = << >>
    /\ log' = << >>
    /\ exit_code' = << >>
    /\ idx' = 0
    /\ pending' = << >>
    /\ orders' = << >>
    /\ files_and_dirs' = << >>
    /\ pc' = "start"
    /\ UNCHANGED << env, project_dir, arg_language, configVars, project_root,
                    files_txt, buffering, probeVars >>

NextTwoRuns == Next \/ Rerun

SpecTwoRuns == Init /\ [][NextTwoRuns]_vars

(***************************************************************************)
(* get_language_for_file on its own                                        *)
(***************************************************************************)
\* the most items [LanguageMappings] has
MaxItems == 1

\* items of [LanguageMappings] as written in config.ini
LanguageItems ==
    { [ext |-> <<".", "s", "p", "e", "c", ".", "j", "s">>, lang |-> "jest"],
      [ext |-> <<".", "P", "Y">>, lang |-> "python3"],
      [ext |-> <<".", "t", "a", "r", ".", "g", "z">>, lang |-> "archive"],
      [ext |-> <<"c">>, lang |-> "clang"] }

LanguageItemLists ==
    {items \in UNION {[1..n -> LanguageItems] : n \in 0..MaxItems} :
        \A i, j \in 1..Len(items) : i # j => lower(items[i].ext) # lower(items[j].ext)}

\* file names: x<ext> for every key of the built-in table and of the items,
\* and names that are no such thing
LanguageNames ==
    {<<"x">> \o key : key \in Keys(get_default_language_mappings)}
        \cup {<<"x">> \o lower(item.ext) : item \in LanguageItems}
        \cup { <<"D", "o", "c", "k", "e", "r", "f", "i", "l", "e">>, <<"a", ".", "m", "y", "d", "o", "c", "k", "e", "r", "f", "i", "l", "e">>, <<"X", ".", "P", "Y">>, <<"x", ".", "u", "n", "k", "n", "o", "w", "n">>, <<"R", "E", "A", "D", "M", "E">>,
               <<"x", ".">>, <<"c">>, <<"a", ".", "b", ".", "c">> }

InitLanguageOf(itemLists) ==
    /\ pc = "load_mappings"
    /\ probe_in \in [filepath : {<< <<"r">>, n >> : n \in LanguageNames},
                     default : {"text", "go"},
                     items : itemLists]
    /\ probe_out = << >>
    /\ env = [project_dir_exists |-> TRUE, config_exists |-> TRUE,
              list_exists |-> TRUE, has_settings |-> TRUE,
              has_project_root |-> TRUE, root_exists |-> TRUE]
    /\ project_dir = << <<"p">> >>
    /\ arg_language = None
    /\ Fresh

InitLanguage == InitLanguageOf(LanguageItemLists)
InitLanguageBuiltin == InitLanguageOf({<< >>})

\* line 361
LoadMappings ==
    /\ pc = "load_mappings"
    /\ language_mappings' = read_language_mappings(probe_in.items)
    /\ pc' = "classify"
    /\ UNCHANGED << inputVars, default_language, filtering_config, project_root,
                    files_txt, files_and_dirs, loopVars, outputVars, log, exit_code,
                    probeVars >>

\* line 272
Classify ==
    /\ pc = "classify"
    /\ probe_out' = << get_language_for_file(probe_in.filepath, probe_in.default,
                                             language_mappings) >>
    /\ pc' = "classified"
    /\ UNCHANGED << mainVars, probe_in >>

NextLanguage == LoadMappings \/ Classify

SpecLanguage == InitLanguage /\ [][NextLanguage]_vars
SpecLanguageBuiltin == InitLanguageBuiltin /\ [][NextLanguage]_vars

(***************************************************************************)
(* process_file on its own                                                 *)
(***************************************************************************)
\* the longest content drawn from ContentChars
MaxContentLen == 3

ContentChars == {"#", "a", " ", "\n"}

Contents ==
    UNION {[1..n -> ContentChars] : n \in 0..MaxContentLen}
        \cup { <<"/", "*", " ", "a", " ", "*", "/">>, <<" ", "/", "*", " ", "a", " ", "*", "/", " ", "\n", "\n">>, <<"a", " ", "/", "*", " ", "a", " ", "*", "/">>, <<"/", "*", "/">>, <<";", "k", "\n", "#", "\n", ";">>,
               <<"<", "!", "-", "-", " ", "a", " ", "-", "-", ">", "\n", " ", " ", "<", "!", "-", "-", "-", "-", ">", "\n">>, <<"-", "-", "\n", "/", "*", "*", "/", "\n">>, <<"/", "/", "a", "\n", "#">> }

ProbeFiles ==
    { << <<"r">>, <<"a", ".", "p", "y">> >>, << <<"r">>, <<"c", ".", "s", "h">> >>, << <<"r">>, <<"n", ".", "i", "n", "i">> >>,
      << <<"r">>, <<"s", ".", "c", "s", "s">> >>, << <<"r">>, <<"h", ".", "H", "T", "M", "L">> >>, << <<"r">>, <<"q", ".", "s", "q", "l">> >>,
      << <<"r">>, <<"j", ".", "j", "s">> >>, << <<"r">>, <<"t", ".", "t", "x", "t">> >>, << <<"r">>, <<"b", ".", "t", "m", "p", ".", "p", "y">> >> }

\* the items of [CommentPatterns]: absent, or  text = ^.*$
ProbeCommentChoices ==
    { << >>, << [language |-> "text", patterns |-> << AnyLine >>] >> }

InitFile ==
    /\ pc = "process_file"
    /\ probe_in \in [filepath : ProbeFiles, content : Contents,
                     filtering : FilteringChoices,
                     custom_comments : ProbeCommentChoices]
    /\ probe_out = << >>
    /\ env = [project_dir_exists |-> TRUE, config_exists |-> TRUE,
              list_exists |-> TRUE, has_settings |-> TRUE,
              has_project_root |-> TRUE, root_exists |-> TRUE]
    /\ project_dir = << <<"p">> >>
    /\ arg_language = None
    /\ Fresh

\* lines 361-364
LoadFiltering ==
    /\ pc = "process_file"
    /\ default_language' = "text"
    /\ language_mappings' = read_language_mappings(<< >>)
    /\ filtering_config' =
           read_filtering_config(probe_in.filtering, << >>, probe_in.custom_comments)
    /\ project_root' = ProjectRoot
    /\ pc' = "call"
    /\ UNCHANGED << inputVars, files_txt, files_and_dirs, loopVars, outputVars,
                    log, exit_code, probeVars >>

\* one call of process_file on a readable file with the content drawn
ProcessOneFile ==
    /\ pc = "call"
    /\ probe_out' =
           << process_file(probe_in.filepath,
                           [exists |-> TRUE, readable |-> TRUE,
                            content |-> probe_in.content],
                           project_root, default_language, language_mappings,
                           filtering_config) >>
    /\ pc' = "returned"
    /\ UNCHANGED << mainVars, probe_in >>

NextFile == LoadFiltering \/ ProcessOneFile

SpecFile == InitFile /\ [][NextFile]_vars

(***************************************************************************)
(* Classification (C1, C2)                                                 *)
(***************************************************************************)
\* a key of more than one dotted segment, as ".html.erb"
IsCompoundKey(key) == Cardinality({i \in 1..Len(key) : key[i] = "."}) >= 2

ProbeName == lower(name(probe_in.filepath))

\* C1: for the built-in table with any [LanguageMappings] items added, a file
\* name that ends in a compound (multi-dot) key of the table is given the
\* language of that key, also when its plain last suffix is a key mapped to
\* another language.
C1_CompoundKeyWins ==
    pc = "classified" =>
        \A i \in 1..Len(language_mappings) :
            (/\ IsCompoundKey(language_mappings[i].ext)
             /\ endswith(ProbeName, language_mappings[i].ext))
                => probe_out = << language_mappings[i].lang >>

ProbeLanguage ==
    get_language_for_file(probe_in.filepath, default_language, language_mappings)

\* the comment patterns of the language the file is classified as
ProbePatterns ==
    IF ProbeLanguage \in DOMAIN filtering_config.comment_patterns
    THEN filtering_config.comment_patterns[ProbeLanguage]
    ELSE << >>

\* every physical line of the content is blank or matches one of them
ProbeAllBlankOrComment ==
    LET lines == split(probe_in.content, "\n")
    IN  \A i \in 1..Len(lines) :
            \/ \A k \in 1..Len(lines[i]) : lines[i][k] \in Whitespace
            \/ \E k \in 1..Len(ProbePatterns) : re_match(ProbePatterns[k], lines[i])

\* the file name holds one of the exclude patterns, whatever the case
ProbeNameExcluded ==
    \E i \in 1..Len(filtering_config.exclude_patterns) :
        contains(lower(name(probe_in.filepath)),
                 lower(filtering_config.exclude_patterns[i]))

\* C8: with clean_comments enabled, a file all of whose physical lines (the
\* empty piece after a trailing newline included) are blank or match a comment
\* pattern of its language has whitespace-only cleaned content, gets no
\* section, and has its skip logged: as empty after cleaning, or as excluded
\* when the exclusion test stopped it before it was read.
C8_CommentOnlyFileSkipped ==
    (pc = "returned" /\ filtering_config.clean_comments /\ ProbeAllBlankOrComment) =>
        /\ \A k \in 1..Len(clean_content(probe_in.content, ProbeLanguage,
                                         filtering_config.comment_patterns)) :
               clean_content(probe_in.content, ProbeLanguage,
                             filtering_config.comment_patterns)[k] \in Whitespace
        /\ probe_out[1].writes = << >>
        /\ probe_out[1].log =
               << Msg(IF filtering_config.exclude_files /\ ProbeNameExcluded
                      THEN "Excluded file"
                      ELSE "Skipped empty file after cleaning", probe_in.filepath) >>

\* a.py holding two comment lines and a trailing newline was skipped as empty
C8_Witness ==
    /\ pc = "returned"
    /\ filtering_config.clean_comments
    /\ probe_in.filepath = << <<"r">>, <<"a", ".", "p", "y">> >>
    /\ probe_in.content = <<"#", "a", "\n">>
    /\ probe_out[1].writes = << >>
    /\ probe_out[1].log =
           << Msg("Skipped empty file after cleaning", probe_in.filepath) >>

(***************************************************************************)
(* Runs of main (C3, C4, C5, C6, C7, C9, C10)                              *)
(***************************************************************************)
SectionIndices == {k \in 1..Len(markdown) : markdown[k].kind = "section"}

\* the file name holds one of the configured exclude patterns, whatever the
\* case of either
NameExcluded(filename) ==
    \E i \in 1..Len(filtering_config.exclude_patterns) :
        contains(lower(filename), lower(filtering_config.exclude_patterns[i]))

\* the files process_file was called on for entry i, once it has been
\* processed
Visited(i) ==
    IF orders[i] # << >> THEN {orders[i][k] : k \in 1..Len(orders[i])}
    ELSE IF is_file(resolve(files_and_dirs[i], project_root))
    THEN {resolve(files_and_dirs[i], project_root)}
    ELSE {}

\* the text of file f is not whitespace-only after the cleaning of line 279
InkAfterCleaning(f) ==
    LET language == get_language_for_file(f, default_language, language_mappings)
        content == IF filtering_config.clean_comments
                   THEN clean_content(FileAt(f).content, language,
                                      filtering_config.comment_patterns)
                   ELSE FileAt(f).content
    IN  \E k \in 1..Len(content) : content[k] \notin Whitespace

\* the writes that entry i made for file f
SectionsOf(i, f) == {k \in SectionIndices : origin[k] = [entry |-> i, file |-> f]}

\* C3: with exclude_files true no section is ever headed by a file whose
\* name holds an exclude pattern (any case), by a direct entry or by a
\* directory walk; with exclude_files false no file is logged as excluded,
\* and every such file visited went on to the reading and the later checks:
\* it has its section, or was logged as empty after cleaning or as an error.
C3_ExcludedNeverWritten ==
    /\ filtering_config.exclude_files =>
           \A k \in SectionIndices : ~NameExcluded(name(markdown[k].path))
    /\ ~filtering_config.exclude_files =>
           /\ \A k \in 1..Len(log) : log[k].kind # "Excluded file"
           /\ \A i \in 1..Len(orders) : \A f \in Visited(i) :
                  (NameExcluded(name(f)) /\ (i < idx \/ pc = "done")) =>
                      \/ SectionsOf(i, f) # {}
                      \/ \E k \in 1..Len(log) :
                             /\ log[k].path = f
                             /\ log[k].kind \in {"Skipped empty file after cleaning",
                                                 "Error reading file"}

\* with exclusion enabled, .DS_STORE was skipped twice, once in the walk of
\* src and once as an entry of its own
C3_Witness ==
    /\ pc = "done"
    /\ filtering_config.exclude_files
    /\ Len(files_and_dirs) = 2
    /\ is_dir(resolve(files_and_dirs[1], project_root))
    /\ is_file(resolve(files_and_dirs[2], project_root))
    /\ Cardinality({k \in 1..Len(log) :
                       /\ log[k].kind = "Excluded file"
                       /\ name(log[k].path) = <<".", "D", "S", "_", "S", "T", "O", "R", "E">>}) = 2

\* one of the fatal conditions of the claim holds
ConfigurationFault ==
    \/ ~env.config_exists
    \/ ~env.list_exists
    \/ ~env.has_settings
    \/ ~env.has_project_root
    \/ ~env.root_exists

\* C4: when config.ini, files.txt, [Settings], project_root or the project
\* root directory is missing, the run never gets as far as opening the
\* output file, it cannot stop anywhere but at the exit, and it exits with
\* code 1; so the output file is opened only after all these checks passed.
C4_FatalBeforeOutput ==
    ConfigurationFault =>
        /\ disk = NoDisk
        /\ markdown = << >>
        /\ pc \in {"start", "check_config", "check_list", "read_config", "root", "exit"}
        /\ pc = "exit" => exit_code = << 1 >>
        /\ pc # "exit" => exit_code = << >> /\ ENABLED Next

\* project_root is not set, everything else is there: exit code 1, no output
C4_Witness ==
    /\ pc = "exit"
    /\ exit_code = << 1 >>
    /\ env = [project_dir_exists |-> TRUE, config_exists |-> TRUE,
              list_exists |-> TRUE, has_settings |-> TRUE,
              has_project_root |-> FALSE, root_exists |-> TRUE]
    /\ disk = NoDisk

\* files.txt holds one entry and it is a directory; the run is over
OneDirectoryDone ==
    /\ pc = "done"
    /\ Len(files_and_dirs) = 1
    /\ is_dir(resolve(files_and_dirs[1], project_root))

\* the regular files below the directory of the only entry
FilesBelowEntry ==
    {f \in Files : IsRelativeTo(f, resolve(files_and_dirs[1], project_root))}

\* C5 as stated: every regular file below the directory has exactly one
\* section, headed by its path relative to the project root.
C5_AsStated ==
    OneDirectoryDone =>
        \A f \in FilesBelowEntry :
            /\ Cardinality({k \in SectionIndices : origin[k].file = f}) = 1
            /\ \A k \in SectionIndices :
                   origin[k].file = f =>
                       /\ IsRelativeTo(f, project_root)
                       /\ markdown[k].path = relative_to(f, project_root)

\* the file passes every test of process_file
Eligible(f) ==
    /\ ~(filtering_config.exclude_files /\ NameExcluded(name(f)))
    /\ FileAt(f).readable
    /\ InkAfterCleaning(f)
    /\ IsRelativeTo(f, project_root)

\* C5, amended: every regular file below the directory, other than the
\* output file being written, has exactly one section, headed by its path
\* relative to the project root, if it is not excluded, can be read, is not
\* whitespace-only after cleaning and lies below the project root, and has no
\* section otherwise; the output file being written has at most one.
C5_EligibleFilesOnce ==
    OneDirectoryDone =>
        \A f \in FilesBelowEntry :
            /\ LET n == Cardinality({k \in SectionIndices : origin[k].file = f})
               IN  IF f = OutputPath(clock) THEN n <= 1
                   ELSE n = IF Eligible(f) THEN 1 ELSE 0
            /\ \A k \in SectionIndices :
                   origin[k].file = f =>
                       markdown[k].path = relative_to(f, project_root)

\* the one entry was src, nothing was filtered, and a.py and sub/.DS_STORE
\* each have their section
C5_Witness ==
    /\ OneDirectoryDone
    /\ files_and_dirs = << <<"s", "r", "c">> >>
    /\ \A f \in FilesBelowEntry :
           \E k \in SectionIndices :
               origin[k].file = f /\ markdown[k].path = relative_to(f, project_root)
    /\ Cardinality(FilesBelowEntry) = 2


\* entry i of the file list has been dealt with
Processed(i) == i < idx \/ pc = "done"

\* the messages process_path prints first for an entry, as the log has them
StartMessages ==
    SelectSeq(log, LAMBDA m : m.kind \in {"Processing directory", "Processing file",
                                          "Path not found"})

\* the lines of files.txt that are entries: not blank, not a comment
EntryLines ==
    {i \in 1..Len(files_txt) :
        \E k \in 1..Len(files_txt[i]) :
            /\ files_txt[i][k] \notin Whitespace
            /\ \A j \in 1..(k - 1) : files_txt[i][j] \in Whitespace
            /\ files_txt[i][k] # "#"}

\* C6: once the output has been opened the run never exits with code 1, and
\* it always has its next step (an entry to take up, a file of the walk, or
\* the end of the loop) until its end, where the exit code is 0; every entry of the
\* file list is taken up, in order, whatever happened to the ones before it
\* (not found, unreadable, excluded, empty after cleaning); and a skipped
\* item costs nothing else: every other file visited, if it passes the
\* tests of process_file, has its section.
C6_SkipsDoNotStopTheRun ==
    /\ markdown # << >> => /\ exit_code # << 1 >>
                           /\ pc \in {"loop", "walk", "done"}
    /\ pc = "loop" => idx \in 1..(Len(files_and_dirs) + 1)
    /\ pc = "walk" => idx \in 1..Len(files_and_dirs) /\ pending # << >>
    /\ pc = "done" => /\ exit_code = << 0 >>
                      /\ Len(orders) = Len(files_and_dirs)
    /\ pc \in {"loop", "walk", "done"} =>
           /\ Len(StartMessages) = Len(orders)
           /\ \A i \in 1..Len(orders) :
                  StartMessages[i].path = resolve(files_and_dirs[i], project_root)
           /\ \A i \in 1..Len(orders) : \A f \in Visited(i) :
                  (Processed(i) /\ f # OutputPath(clock)) =>
                      Cardinality(SectionsOf(i, f)) = IF Eligible(f) THEN 1 ELSE 0

\* the first entry was not found, the walk of the second skipped the
\* excluded .DS_STORE and wrote a.py, and the run ended with exit code 0
C6_Witness ==
    /\ pc = "done"
    /\ exit_code = << 0 >>
    /\ files_and_dirs = << <<"w">>, <<"s", "r", "c">> >>
    /\ \E k \in 1..Len(log) : log[k].kind = "Path not found"
    /\ \E k \in 1..Len(log) : log[k].kind = "Excluded file"
    /\ SectionsOf(2, << <<"r">>, <<"s", "r", "c">>, <<"a", ".", "p", "y">> >>) # {}

\* C7: a second run on the same inputs at another minute writes the same
\* sections as the first, character for character, also when the project
\* directory lies below a directory of the file list.
C7_SameSectionsOnRerun ==
    (run = 2 /\ pc = "done") => Text(Sections(markdown)) = Text(first_sections)

\* one stream is the prefix of the other
IsPrefix(s, t) == Len(s) <= Len(t) /\ SubSeq(t, 1, Len(s)) = s

\* the header comes first, then sections only, entry after entry
OrderedDocument ==
    /\ markdown # << >> =>
           /\ Len(markdown) >= 2
           /\ markdown[1].kind = "title"
           /\ markdown[2].kind = "generated"
    /\ \A k \in 3..Len(markdown) : markdown[k].kind = "section"
    /\ \A j, k \in SectionIndices : j < k => origin[j].entry <= origin[k].entry
    /\ \A k \in SectionIndices : origin[k].entry \in 1..Len(files_and_dirs)

\* every entry line of files.txt is taken up, a repeated one as often as
\* it is there, in the order of the file
EveryLineInOrder ==
    /\ pc \in {"open", "loop", "walk", "done"} =>
           /\ Len(files_and_dirs) = Cardinality(EntryLines)
           /\ \A i \in 1..Len(files_and_dirs) :
                  \E l \in EntryLines :
                      /\ Cardinality({m \in EntryLines : m <= l}) = i
                      /\ files_and_dirs[i] = strip(files_txt[l])
    /\ pc = "done" =>
           /\ Len(StartMessages) = Len(files_and_dirs)
           /\ \A i \in 1..Len(files_and_dirs) :
                  StartMessages[i].path = resolve(files_and_dirs[i], project_root)

\* C9: every step leaves what was written where it is and only appends to
\* it; the header is written before any section; the sections of an entry
\* come before those of every later entry; and the entries processed are
\* the entry lines of files.txt, duplicates and order kept.
C9_SingleWriterInOrder ==
    [][/\ IsPrefix(markdown, markdown')
       /\ OrderedDocument'
       /\ EveryLineInOrder']_vars

\* src is listed twice and was walked twice: the header, then a.py and
\* .DS_STORE of the first entry, then a.py and .DS_STORE of the second
C9_Witness ==
    /\ pc = "done"
    /\ files_and_dirs = << <<"s", "r", "c">>, <<"s", "r", "c">> >>
    /\ Len(markdown) = 6
    /\ origin[3].entry = 1 /\ origin[4].entry = 1
    /\ origin[5].entry = 2 /\ origin[6].entry = 2
    /\ {origin[3].file, origin[4].file} = {origin[5].file, origin[6].file}

\* C10: every entry, relative or absolute, that stands for a regular file
\* which is not excluded, can be read and is not whitespace-only after
\* cleaning has exactly one section of its own, headed by the path relative
\* to the project root and tagged with the language of the file.
C10_EveryEligibleEntryWritten ==
    \A i \in 1..Len(orders) :
        LET f == resolve(files_and_dirs[i], project_root)
        IN  ( /\ pc \in {"loop", "walk", "done"}
              /\ Processed(i)
              /\ f \in DOMAIN SourceFiles
              /\ ~(filtering_config.exclude_files /\ NameExcluded(name(f)))
              /\ FileAt(f).readable
              /\ InkAfterCleaning(f) ) =>
                /\ Cardinality(SectionsOf(i, f)) = 1
                /\ \A k \in SectionsOf(i, f) :
                       /\ markdown[k].path = relative_to(f, project_root)
                       /\ markdown[k].lang =
                              get_language_for_file(f, default_language, language_mappings)
====
